---- MODULE Spec2Model ----
(***************************************************************************)
(* Telco churn prediction service: the Flask serving endpoint (app.py) and *)
(* the parts of the training pipeline (model_training.py) that serving     *)
(* must agree with.                                                        *)
(*                                                                         *)
(* The state is the three module-level artifacts of app.py (model,         *)
(* label_encoders, scaler), the outcome of load_model, and a log of the    *)
(* last request handled since then (request, response, and what the        *)
(* handler ran).  Each handler is one action.                              *)
(*                                                                         *)
(* Values.  JSON / DataFrame cell values are records of one shape          *)
(*   [t, s, n, col]:  t = "num" (n is the number), "str" (s is the text,   *)
(*   col the column name the text quotes, "" if none), "nan" (NaN / JSON   *)
(*   null in a numeric cell), "bool" (n = 1 for true).                     *)
(* Floats are integers (charges in whole units, probabilities in percent,  *)
(* scaled features in hundredths).                                         *)
(***************************************************************************)
EXTENDS Integers, Sequences, FiniteSets, TLC

VARIABLES
    model,           \* app.model: None or the classifier artifact
    label_encoders,  \* app.label_encoders: dict column -> LabelEncoder
    scaler,          \* app.scaler: None or the scaler artifact
    phase,           \* "imported" | "loaded" | "load_failed" (load_model's return)
    req,             \* last request handled since load_model: [op, body]
    resp,            \* its response: [status, kind, json]
    ran              \* what the handler ran for it (log, not program state)

vars == <<model, label_encoders, scaler, phase, req, resp, ran>>

---------------------------------------------------------------------------
(* Cell values *)

Num(n) == [t |-> "num", s |-> "", n |-> n, col |-> ""]
Str(s) == [t |-> "str", s |-> s, n |-> 0, col |-> ""]
Msg(s, c) == [t |-> "str", s |-> s, n |-> 0, col |-> c]
Bool(b) == [t |-> "bool", s |-> "", n |-> IF b THEN 1 ELSE 0, col |-> ""]
NaN == [t |-> "nan", s |-> "", n |-> 0, col |-> ""]

\* Python's None for an artifact that is not loaded.
None == [type |-> "NoneType"]

\* An empty dict.
EmptyDict == [c \in {} |-> 0]

---------------------------------------------------------------------------
(* Columns *)

categorical_columns ==
    << "gender", "Partner", "Dependents", "PhoneService",
       "MultipleLines", "InternetService", "OnlineSecurity",
       "OnlineBackup", "DeviceProtection", "TechSupport",
       "StreamingTV", "StreamingMovies", "Contract",
       "PaperlessBilling", "PaymentMethod" >>

feature_columns ==
    << "SeniorCitizen", "tenure", "MonthlyCharges", "TotalCharges",
       "gender", "Partner", "Dependents", "PhoneService", "MultipleLines",
       "InternetService", "OnlineSecurity", "OnlineBackup", "DeviceProtection",
       "TechSupport", "StreamingTV", "StreamingMovies", "Contract",
       "PaperlessBilling", "PaymentMethod", "NEW_Engaged", "NEW_TotalServices" >>

\* The seven columns NEW_TotalServices counts, in the order the code lists them.
service_columns ==
    << "PhoneService", "OnlineSecurity", "OnlineBackup",
       "DeviceProtection", "TechSupport", "StreamingTV",
       "StreamingMovies" >>

Range(seq) == {seq[i] : i \in 1..Len(seq)}

\* The raw columns of a customer record.
RawColumns == Range(feature_columns) \ {"NEW_Engaged", "NEW_TotalServices"}

---------------------------------------------------------------------------
(* Training: vocabulary of the dataset, LabelEncoder.fit, feature           *)
(* engineering on raw labels                                                *)

\* The three Contract categories.
ContractClasses == {"Month-to-month", "One year", "Two year"}

\* Distinct values of each categorical column of the training dataset.
Vocabulary ==
    [c \in Range(categorical_columns) |->
        CASE c = "gender" -> {"Female", "Male"}
          [] c \in {"Partner", "Dependents", "PhoneService", "PaperlessBilling"}
                -> {"No", "Yes"}
          [] c = "MultipleLines" -> {"No", "No phone service", "Yes"}
          [] c = "InternetService" -> {"DSL", "Fiber optic", "No"}
          [] c = "Contract" -> ContractClasses
          [] c = "PaymentMethod" ->
                {"Bank transfer (automatic)", "Credit card (automatic)",
                 "Electronic check", "Mailed check"}
          [] OTHER -> {"No", "No internet service", "Yes"}]

\* Python's ordering of the vocabulary's strings (code-point order), ascending.
StringOrder ==
    << "Bank transfer (automatic)", "Credit card (automatic)", "DSL",
       "Electronic check", "Female", "Fiber optic", "Mailed check", "Male",
       "Month-to-month", "No", "No internet service", "No phone service",
       "One year", "Two year", "Yes" >>

StringRank(s) == CHOOSE i \in 1..Len(StringOrder) : StringOrder[i] = s

RECURSIVE SortedSeq(_)
\* np.unique of a column: its distinct values, sorted ascending.
SortedSeq(S) ==
    IF S = {} THEN << >>
    ELSE LET lo == CHOOSE x \in S : \A y \in S : StringRank(x) <= StringRank(y)
         IN  <<lo>> \o SortedSeq(S \ {lo})

\* LabelEncoder().fit(values): classes_ is the sorted distinct values; the code
\* of classes_[i] is i - 1.
LabelEncoder_fit(values) == SortedSeq(values)

\* encode_categorical_features: one encoder per categorical column of the dataset.
encode_categorical_features ==
    [c \in Range(categorical_columns) |-> LabelEncoder_fit(Vocabulary[c])]

\* feature_engineering, NEW_Engaged: from the raw Contract label.
NEW_Engaged(contract) ==
    IF contract \in {Str("One year"), Str("Two year")} THEN 1 ELSE 0

\* feature_engineering, NEW_TotalServices: the service columns of the raw row
\* that are 'Yes'.
NEW_TotalServices(row) ==
    Cardinality({i \in 1..Len(service_columns) :
                    row[service_columns[i]] = Str("Yes")})

\* feature_engineering on one raw row of the dataset.
feature_engineering(row) ==
    [NEW_Engaged |-> NEW_Engaged(row["Contract"]),
     NEW_TotalServices |-> NEW_TotalServices(row)]

---------------------------------------------------------------------------
(* The artifact files under models/ that joblib.load may find *)

\* joblib.load raising (file absent or unreadable).
Missing == [type |-> "FileNotFoundError"]

\* The classifier is opaque to the service: a decision over one scaled feature
\* stands for the fitted forest.  allow_nan tells whether its predict accepts
\* NaN cells (it depends on the library build that fitted it).
ClassifierArtifacts ==
    { [type |-> "RandomForestClassifier", feature |-> 21, threshold |-> 100,
       allow_nan |-> FALSE],
      [type |-> "RandomForestClassifier", feature |-> 2, threshold |-> 0,
       allow_nan |-> TRUE] }

\* StandardScaler: per position of feature_columns a mean and a scale.
ScalerArtifacts ==
    { [type |-> "StandardScaler",
       mean_ |-> [i \in 1..Len(feature_columns) |->
                    CASE i = 2 -> 1 [] i = 3 -> 60 [] i = 4 -> 500 [] OTHER -> 1],
       scale_ |-> [i \in 1..Len(feature_columns) |->
                    CASE i = 3 -> 20 [] i = 4 -> 200 [] OTHER -> 2]] }

\* Every order of the Contract classes: every bijection class -> code.
ContractOrders ==
    {o \in [1..3 -> ContractClasses] : \A c \in ContractClasses : \E i \in 1..3 : o[i] = c}

\* Encoder tables the file may hold: the table training fits, and the same
\* table with the Contract classes in another order.
EncoderArtifacts ==
    {[encode_categorical_features EXCEPT !["Contract"] = o] : o \in ContractOrders}

ModelFiles ==
    [model : ClassifierArtifacts \cup {Missing},
     label_encoders : EncoderArtifacts \cup {Missing},
     scaler : ScalerArtifacts \cup {Missing}]

\* load_model: three loads in order inside one try; a raise keeps the
\* assignments already made and returns False.
load_model_result(m, encs, sc, files) ==
    IF files.model = Missing
    THEN [model |-> m, label_encoders |-> encs, scaler |-> sc, ret |-> FALSE]
    ELSE IF files.label_encoders = Missing
    THEN [model |-> files.model, label_encoders |-> encs, scaler |-> sc,
          ret |-> FALSE]
    ELSE IF files.scaler = Missing
    THEN [model |-> files.model, label_encoders |-> files.label_encoders,
          scaler |-> sc, ret |-> FALSE]
    ELSE [model |-> files.model, label_encoders |-> files.label_encoders,
          scaler |-> files.scaler, ret |-> TRUE]

---------------------------------------------------------------------------
(* Exceptions, as the text str(e) gives *)

NoExc == Msg("", "")
KeyError(c) == Msg("KeyError", c)
UnseenLabel(c) == Msg("y contains previously unseen labels", c)
NotAFloat(c) == Msg("could not convert string to float", c)
NoTransform == Msg("'NoneType' object has no attribute 'transform'", "")
InputContainsNaN == Msg("Input contains NaN", "")
BadRequest == Msg("400 Bad Request: The browser (or proxy) sent a request that this server could not understand.", "")

---------------------------------------------------------------------------
(* preprocess_input *)

\* pd.DataFrame([data]): the named columns of the one row.  A JSON value that
\* is not an object gives no named column.
DataFrame(data) == IF data.kind = "object" THEN data.fields ELSE EmptyDict

\* float(text) for the texts the requests carry.
ParseFloat(s) == CASE s = "600" -> Num(600) [] OTHER -> NaN

\* pd.to_numeric(cell, errors='coerce')
to_numeric(v) ==
    CASE v.t = "num" -> v
      [] v.t = "str" -> ParseFloat(v.s)
      [] OTHER -> NaN

\* A faulty variant: fit_transform refits the encoder on the request's value.
LabelEncoder_fit_transform(le, v) ==
    [ok |-> v.t = "str", code |-> 0, le |-> IF v.t = "str" THEN <<v.s>> ELSE le]

\* LabelEncoder.transform on one cell: the index of the value in classes_,
\* ValueError for a value not in classes_; the encoder is left as it was.
LabelEncoder_transform(le, v) ==
    IF v.t = "str" /\ \E i \in 1..Len(le) : le[i] = v.s
    THEN [ok |-> TRUE, code |-> (CHOOSE i \in 1..Len(le) : le[i] = v.s) - 1,
          le |-> le]
    ELSE [ok |-> FALSE, code |-> 0, le |-> le]

RECURSIVE EncodeFrom(_, _, _)
\* The loop over categorical_columns from position i on.
EncodeFrom(i, df, encs) ==
    IF i > Len(categorical_columns)
    THEN [ok |-> TRUE, df |-> df, encs |-> encs, exc |-> NoExc]
    ELSE LET col == categorical_columns[i]
         IN  IF col \in DOMAIN df /\ col \in DOMAIN encs
             THEN LET r == LabelEncoder_transform(encs[col], df[col])
                      encs2 == [encs EXCEPT ![col] = r.le]
                  IN  IF r.ok
                      THEN EncodeFrom(i + 1, [df EXCEPT ![col] = Num(r.code)], encs2)
                      ELSE [ok |-> FALSE, df |-> df, encs |-> encs2,
                            exc |-> UnseenLabel(col)]
             ELSE EncodeFrom(i + 1, df, encs)

\* The first column of seq that df lacks ("" if none).
FirstMissing(seq, df) ==
    IF \E i \in 1..Len(seq) : seq[i] \notin DOMAIN df
    THEN seq[CHOOSE i \in 1..Len(seq) :
                /\ seq[i] \notin DOMAIN df
                /\ \A j \in 1..(i - 1) : seq[j] \in DOMAIN df]
    ELSE ""

\* scaler.transform on one cell at position i: text is converted to float
\* (ValueError if it cannot be), NaN passes through.
ScaleCell(sc, i, v) ==
    LET x == IF v.t = "str" THEN ParseFloat(v.s) ELSE v
    IN  IF x.t = "num"
        THEN Num(((x.n - sc.mean_[i]) * 100) \div sc.scale_[i])
        ELSE NaN

CellConverts(v) == v.t # "str" \/ ParseFloat(v.s) # NaN

\* What preprocess_input returns: X (ok) or None (~ok, the exception only
\* printed), with the derived features it computed on the way (-1: not reached)
\* and the encoder table as the call leaves it.
PreResult(ok, X, exc, engaged, services, encs) ==
    [ok |-> ok, X |-> X, exc |-> exc, engaged |-> engaged,
     services |-> services, encs |-> encs]

\* TotalCharges: to_numeric, then NaN replaced by the row's MonthlyCharges
\* (fillna in place on the column, as pandas without copy-on-write does it).
preprocess_input(data, label_encs, sc) ==
    LET enc == EncodeFrom(1, DataFrame(data), label_encs)
        df1 == enc.df
    IN
    IF ~enc.ok THEN PreResult(FALSE, << >>, enc.exc, -1, -1, enc.encs)
    ELSE IF "TotalCharges" \notin DOMAIN df1
    THEN PreResult(FALSE, << >>, KeyError("TotalCharges"), -1, -1, enc.encs)
    ELSE IF "MonthlyCharges" \notin DOMAIN df1
    THEN PreResult(FALSE, << >>, KeyError("MonthlyCharges"), -1, -1, enc.encs)
    ELSE
    LET tc == to_numeric(df1["TotalCharges"])
        df2 == [df1 EXCEPT !["TotalCharges"] =
                    IF tc = NaN THEN df1["MonthlyCharges"] ELSE tc]
    IN
    IF "Contract" \notin DOMAIN df2
    THEN PreResult(FALSE, << >>, KeyError("Contract"), -1, -1, enc.encs)
    ELSE
    LET engaged == IF df2["Contract"] \in {Num(1), Num(2)} THEN 1 ELSE 0
        lacking == FirstMissing(service_columns, df2)
    IN
    IF lacking # ""
    THEN PreResult(FALSE, << >>, KeyError(lacking), engaged, -1, enc.encs)
    ELSE
    LET services == Cardinality({i \in 1..Len(service_columns) :
                                    df2[service_columns[i]] = Num(1)})
        X == [i \in 1..Len(feature_columns) |->
                LET col == feature_columns[i]
                IN  CASE col = "NEW_Engaged" -> Num(engaged)
                      [] col = "NEW_TotalServices" -> Num(services)
                      [] col \in DOMAIN df2 -> df2[col]
                      [] OTHER -> Num(0)]
    IN
    IF sc = None
    THEN PreResult(FALSE, << >>, NoTransform, engaged, services, enc.encs)
    ELSE IF \E i \in 1..Len(X) : ~CellConverts(X[i])
    THEN PreResult(FALSE, << >>,
                   NotAFloat(feature_columns[
                       CHOOSE i \in 1..Len(X) :
                          /\ ~CellConverts(X[i])
                          /\ \A j \in 1..(i - 1) : CellConverts(X[j])]),
                   engaged, services, enc.encs)
    ELSE PreResult(TRUE, [i \in 1..Len(X) |-> ScaleCell(sc, i, X[i])], NoExc,
                   engaged, services, enc.encs)

---------------------------------------------------------------------------
(* The classifier *)

\* model.predict(X)[0] and model.predict_proba(X)[0]: ValueError on a NaN cell
\* unless the classifier accepts NaN; otherwise the label and the pair
\* (no-churn, churn) in percent.
classify(m, X) ==
    IF ~m.allow_nan /\ \E i \in 1..Len(X) : X[i] = NaN
    THEN [raised |-> TRUE, exc |-> InputContainsNaN, label |-> 0,
          proba |-> <<0, 0>>]
    ELSE LET x == X[m.feature]
             label == IF x.t = "num" /\ x.n <= m.threshold THEN 1 ELSE 0
         IN  [raised |-> FALSE, exc |-> NoExc, label |-> label,
              proba |-> IF label = 1 THEN <<30, 70>> ELSE <<80, 20>>]

---------------------------------------------------------------------------
(* Responses and the handlers' results *)

Json(status, fields) == [status |-> status, kind |-> "json", json |-> fields]

\* A handler that let an exception out: the framework's own error page.
Unhandled == [status |-> 500, kind |-> "html", json |-> EmptyDict]

NoResp == [status |-> 0, kind |-> "none", json |-> EmptyDict]

NoBody == [kind |-> "none", fields |-> EmptyDict]

\* Nothing of preprocessing or inference ran.
NoRun ==
    [preprocess |-> FALSE, pre_ok |-> FALSE, reason |-> NoExc, engaged |-> -1,
     services |-> -1, classifier |-> FALSE, exception |-> NoExc]
\* preprocess: preprocess_input was called; pre_ok: it returned X; reason: the
\* exception it printed; engaged, services: the derived features it computed
\* (-1: not reached); classifier: model.predict was called; exception: what
\* the try block raised.

PreRun(pre) ==
    [NoRun EXCEPT !.preprocess = TRUE, !.pre_ok = pre.ok, !.reason = pre.exc,
                  !.engaged = pre.engaged, !.services = pre.services]

\* What the try block of predict ends in: a response returned, or an
\* exception raised; with the log and the encoder table as it leaves them.
Outcome(raised, exc, response, run, encs) ==
    [raised |-> raised, exc |-> exc, resp |-> response,
     ran |-> IF raised THEN [run EXCEPT !.exception = exc] ELSE run,
     encs |-> encs]

\* `not data` for the parsed body.
Falsy(data) ==
    \/ data.kind = "null"
    \/ data.kind = "object" /\ DOMAIN data.fields = {}

\* A faulty variant: a failed preprocessing is not checked, and the classifier
\* is called on None.
predict_infer_unchecked(m, pre) ==
    IF ~pre.ok
    THEN Outcome(TRUE, Msg("Expected 2D array, got scalar array instead", ""),
                 NoResp, [PreRun(pre) EXCEPT !.classifier = TRUE], pre.encs)
    ELSE Outcome(FALSE, NoExc,
                 Json(200, "prediction" :> Num(classify(m, pre.X).label)),
                 [PreRun(pre) EXCEPT !.classifier = TRUE], pre.encs)

\* predict, from the result of preprocess_input on: 400 if it is None, else
\* the classifier's label and probabilities.
predict_infer(m, pre) ==
    IF ~pre.ok
    THEN Outcome(FALSE, NoExc,
                 Json(400, "error" :> Str("Error in data preprocessing")),
                 PreRun(pre), pre.encs)
    ELSE LET c == classify(m, pre.X)
             run == [PreRun(pre) EXCEPT !.classifier = TRUE]
         IN  IF c.raised
             THEN Outcome(TRUE, c.exc, NoResp, run, pre.encs)
             ELSE Outcome(FALSE, NoExc,
                     Json(200,
                          ("prediction" :> Num(c.label))
                          @@ ("churn_probability" :> Num(c.proba[2]))
                          @@ ("no_churn_probability" :> Num(c.proba[1]))
                          @@ ("message" :>
                                IF c.label = 1 THEN Str("Customer will churn")
                                ELSE Str("Customer will not churn"))),
                     run, pre.encs)

\* A faulty variant: the body is read and checked before the model.
predict_try_body_first(m, encs, sc, body) ==
    IF body.kind = "malformed"
    THEN Outcome(TRUE, BadRequest, NoResp, NoRun, encs)
    ELSE IF Falsy(body)
    THEN Outcome(FALSE, NoExc, Json(400, "error" :> Str("No data provided")),
                 NoRun, encs)
    ELSE IF m = None
    THEN Outcome(FALSE, NoExc, Json(500, "error" :> Str("Model not loaded")),
                 NoRun, encs)
    ELSE predict_infer(m, preprocess_input(body, encs, sc))

\* The try block of predict.  request.get_json() raises BadRequest on a body
\* that is not JSON.
predict_try(m, encs, sc, body) ==
    IF m = None
    THEN Outcome(FALSE, NoExc, Json(500, "error" :> Str("Model not loaded")),
                 NoRun, encs)
    ELSE IF body.kind = "malformed"
    THEN Outcome(TRUE, BadRequest, NoResp, NoRun, encs)
    ELSE IF Falsy(body)
    THEN Outcome(FALSE, NoExc, Json(400, "error" :> Str("No data provided")),
                 NoRun, encs)
    ELSE predict_infer(m, preprocess_input(body, encs, sc))

\* A faulty variant: no except clause, the exception leaves the handler.
predict_no_except(m, encs, sc, body) ==
    LET o == predict_try(m, encs, sc, body)
    IN  IF o.raised
        THEN [resp |-> Unhandled, ran |-> o.ran, encs |-> o.encs]
        ELSE [resp |-> o.resp, ran |-> o.ran, encs |-> o.encs]

\* predict as a whole: the try block, and `except Exception` turning whatever
\* it raised into 500 with str(e).
predict_except(m, encs, sc, body) ==
    LET o == predict_try(m, encs, sc, body)
    IN  IF o.raised
        THEN [resp |-> Json(500, "error" :> o.exc), ran |-> o.ran,
              encs |-> o.encs]
        ELSE [resp |-> o.resp, ran |-> o.ran, encs |-> o.encs]

\* A faulty variant: the health check answers 500 while nothing is loaded.
health_check_guarded(m) ==
    IF m = None THEN Json(500, "error" :> Str("Model not loaded"))
    ELSE Json(200, ("status" :> Str("healthy")) @@ ("model_loaded" :> Bool(TRUE)))

health_check_response(m) ==
    Json(200, ("status" :> Str("healthy")) @@ ("model_loaded" :> Bool(m # None)))

model_info_response(m, encs) ==
    IF m = None THEN Json(500, "error" :> Str("Model not loaded"))
    ELSE Json(200,
              ("model_type" :> Str(m.type))
              @@ ("features" :> Num(Cardinality(DOMAIN encs)))
              @@ ("status" :> Str("loaded")))

\* render_template('index.html')
home_response == [status |-> 200, kind |-> "html", json |-> EmptyDict]

---------------------------------------------------------------------------
(* Requests *)

\* How many of the service columns (the first ones) the generated records vary.
MaxVaried == 3
\* Largest tenure among the generated tenure variants.
MaxTenure == 2

\* A complete valid record; on the columns the tests send it has their values.
BaseRecord ==
    [c \in RawColumns |->
        CASE c = "gender" -> Str("Male")
          [] c = "SeniorCitizen" -> Num(0)
          [] c = "tenure" -> Num(12)
          [] c = "MonthlyCharges" -> Num(50)
          [] c = "TotalCharges" -> Num(600)
          [] c = "PhoneService" -> Str("Yes")
          [] c = "InternetService" -> Str("DSL")
          [] c = "Contract" -> Str("Month-to-month")
          [] c = "PaperlessBilling" -> Str("Yes")
          [] c = "PaymentMethod" -> Str("Electronic check")
          [] OTHER -> Str("No")]

\* The record the tests post: eleven of the nineteen columns.
TestColumns ==
    {"gender", "SeniorCitizen", "Partner", "Dependents", "tenure",
     "PhoneService", "MultipleLines", "InternetService", "Contract",
     "MonthlyCharges", "TotalCharges"}

TestRecord == [c \in TestColumns |-> BaseRecord[c]]

\* The service columns the generated records vary over their vocabulary.
VariedColumns ==
    {service_columns[i] : i \in 1..(IF MaxVaried < Len(service_columns)
                                    THEN MaxVaried ELSE Len(service_columns))}

\* Complete records: the base record with each varied service column at any
\* value of its vocabulary.
ServiceRecords ==
    {[c \in RawColumns |-> IF c \in VariedColumns THEN Str(choice[c]) ELSE BaseRecord[c]] :
        choice \in {f \in [VariedColumns -> {"No", "No internet service", "Yes"}] :
                        \A c \in VariedColumns : f[c] \in Vocabulary[c]}}

ContractRecords ==
    {[BaseRecord EXCEPT !["Contract"] = Str(c)] : c \in ContractClasses \cup {"Weekly"}}

\* The base record without one column.
DroppedRecords ==
    {[c \in RawColumns \ {d} |-> BaseRecord[c]] : d \in RawColumns}

NumericRecords ==
    {[BaseRecord EXCEPT !["tenure"] = Num(t)] : t \in 0..MaxTenure}
    \cup {[BaseRecord EXCEPT !["MonthlyCharges"] = Str("abc")],
          [BaseRecord EXCEPT !["TotalCharges"] = Str("N/A")],
          [BaseRecord EXCEPT !["TotalCharges"] = Str("600")],
          [BaseRecord EXCEPT !["tenure"] = NaN],
          [BaseRecord EXCEPT !["gender"] = Str("Other")]}

Records ==
    ServiceRecords \cup ContractRecords \cup DroppedRecords
    \cup NumericRecords \cup {TestRecord}

Object(fields) == [kind |-> "object", fields |-> fields]

\* A body that is not JSON.
Malformed == [kind |-> "malformed", fields |-> EmptyDict]
\* The JSON value null.
NullBody == [kind |-> "null", fields |-> EmptyDict]
\* A JSON value that is neither an object nor falsy, such as 5.
ScalarBody == [kind |-> "scalar", fields |-> EmptyDict]

RequestBodies ==
    {Malformed, NullBody, ScalarBody, Object(EmptyDict)}
    \cup {Object(r) : r \in Records}

---------------------------------------------------------------------------
(* Actions *)

Init ==
    /\ model = None
    /\ label_encoders = EmptyDict
    /\ scaler = None
    /\ phase = "imported"
    /\ req = [op |-> "none", body |-> NoBody]
    /\ resp = NoResp
    /\ ran = NoRun

\* load_model(), once, at startup.  The requests below are served in every
\* phase: the app object answers them as soon as the module is imported (the
\* tests' client, a WSGI server), whether or not load_model was called and
\* whatever it returned; only the __main__ block declines to start the server
\* after a failed load.  The log is reset: it describes requests handled with
\* the current artifacts.
load_model ==
    /\ phase = "imported"
    /\ \E files \in ModelFiles :
        LET r == load_model_result(model, label_encoders, scaler, files)
        IN  /\ model' = r.model
            /\ label_encoders' = r.label_encoders
            /\ scaler' = r.scaler
            /\ phase' = IF r.ret THEN "loaded" ELSE "load_failed"
    /\ req' = [op |-> "none", body |-> NoBody]
    /\ resp' = NoResp
    /\ ran' = NoRun

\* POST /predict
predict ==
    \E body \in RequestBodies :
        \E o \in {predict_except(model, label_encoders, scaler, body)} :
            /\ req' = [op |-> "predict", body |-> body]
            /\ resp' = o.resp
            /\ ran' = o.ran
            /\ label_encoders' = o.encs
            /\ UNCHANGED <<model, scaler, phase>>

\* GET /health
health_check ==
    /\ req' = [op |-> "health", body |-> NoBody]
    /\ resp' = health_check_response(model)
    /\ ran' = NoRun
    /\ UNCHANGED <<model, label_encoders, scaler, phase>>

\* GET /model_info
model_info ==
    /\ req' = [op |-> "model_info", body |-> NoBody]
    /\ resp' = model_info_response(model, label_encoders)
    /\ ran' = NoRun
    /\ UNCHANGED <<model, label_encoders, scaler, phase>>

\* GET /
home ==
    /\ req' = [op |-> "home", body |-> NoBody]
    /\ resp' = home_response
    /\ ran' = NoRun
    /\ UNCHANGED <<model, label_encoders, scaler, phase>>

Next == load_model \/ predict \/ health_check \/ model_info \/ home

Spec == Init /\ [][Next]_vars

---------------------------------------------------------------------------
(* Properties *)

IsPredict == req.op = "predict"
HasError == resp.kind = "json" /\ "error" \in DOMAIN resp.json

C2_EmptyBodyAnswers400 ==
    (IsPredict /\ req.body = Object(EmptyDict))
        => (resp.status = 400 /\ HasError)

\* C3: GET /health answers 200 with status 'healthy' and model_loaded true
\* exactly when model is set, in every state.
C3_HealthAlways200 ==
    req.op = "health"
        => /\ resp.status = 200
           /\ resp.kind = "json"
           /\ DOMAIN resp.json = {"status", "model_loaded"}
           /\ resp.json["status"] = Str("healthy")
           /\ resp.json["model_loaded"] = Bool(model # None)

C3_Witness ==
    /\ req.op = "health"
    /\ phase = "load_failed"
    /\ model # None
    /\ resp.status = 200

\* C4: with the encoder table training fits, the NEW_TotalServices that
\* preprocess_input computes equals the training value, the number of service
\* columns whose raw value is 'Yes'.
C4_ServicesMatchTraining ==
    (/\ IsPredict
     /\ phase = "loaded"
     /\ label_encoders = encode_categorical_features
     /\ ran.services # -1)
        => ran.services = feature_engineering(req.body.fields).NEW_TotalServices

\* C5: for every assignment of codes to the three Contract classes, the
\* NEW_Engaged that preprocess_input computes is the training value: 1 for
\* 'One year' and 'Two year', 0 for 'Month-to-month'.
C5_EngagedFromRawLabel ==
    (IsPredict /\ phase = "loaded" /\ ran.pre_ok)
        => ran.engaged = NEW_Engaged(req.body.fields["Contract"])

\* C6: with all three artifacts loaded, POST /predict on the record the tests
\* send (eleven columns, eight absent) answers 200 with 'prediction' and
\* 'churn_probability'.
C6_SubsetRecordPredicts ==
    (IsPredict /\ phase = "loaded" /\ req.body = Object(TestRecord))
        => /\ resp.status = 200
           /\ {"prediction", "churn_probability"} \subseteq DOMAIN resp.json

\* A record on which the transform is to fail: a required raw column absent, a
\* categorical value outside the encoder's classes, or a numeric column
\* (other than TotalCharges, which falls back on MonthlyCharges) holding text
\* that is no number.
FailingRecord(r, encs) ==
    \/ \E c \in {"MonthlyCharges", "TotalCharges", "Contract"} : c \notin DOMAIN r
    \/ \E c \in DOMAIN r \cap DOMAIN encs :
          r[c].t # "str" \/ r[c].s \notin Range(encs[c])
    \/ \E c \in DOMAIN r \cap {"SeniorCitizen", "tenure", "MonthlyCharges"} :
          r[c].t = "str" /\ ParseFloat(r[c].s) = NaN

C7_Premise ==
    /\ IsPredict
    /\ phase = "loaded"
    /\ ran.preprocess
    /\ ~ran.pre_ok

C8_PredictAlwaysStructured ==
    IsPredict
        => /\ resp.kind = "json"
           /\ resp.status \in {200, 400, 500}
           /\ resp.status # 200 => "error" \in DOMAIN resp.json
           /\ ran.exception # NoExc
                => (resp.status = 500 /\ resp.json = ("error" :> ran.exception))

C8_Witness ==
    /\ IsPredict
    /\ ran.classifier
    /\ ran.exception = InputContainsNaN
    /\ resp.status = 500

\* C9: model is set only if the encoder table and the scaler are loaded too,
\* also after load_model failed.
C9_ModelSetOnlyIfAllLoaded ==
    model # None => (label_encoders # EmptyDict /\ scaler # None)

\* C10: no request handler changes model, label_encoders or scaler, and a
\* predict request repeated at once gets the same response.
C10_HandlersLeaveArtifacts ==
    [][phase' = phase
         => /\ UNCHANGED <<model, label_encoders, scaler>>
            /\ (IsPredict /\ req' = req) => resp' = resp]_vars

C10_Witness ==
    /\ IsPredict
    /\ phase = "loaded"
    /\ resp.status = 200
    /\ model \in ClassifierArtifacts
    /\ label_encoders \in EncoderArtifacts
    /\ scaler \in ScalerArtifacts

====
